---- MODULE Spec2Model ----
(***************************************************************************)
(* SliceMaster: the sprite-island segmentation of utils/spriteDetector     *)
(* (detectSprites) and the pixel editing primitives of                     *)
(* utils/imageProcessor (floodFill), as state machines over one in-memory  *)
(* RGBA pixel buffer.                                                      *)
(*                                                                         *)
(* The buffer `data` is held per pixel: data[i] is the pixel whose four    *)
(* bytes sit at byte offsets 4i..4i+3 of ImageData.data.  The code's byte  *)
(* offsets are kept in the operators that take an index (isSpritePixel,    *)
(* checkPixelForBg, matchColor), and a read outside the buffer yields      *)
(* JavaScript's undefined.                                                 *)
(***************************************************************************)
EXTENDS Integers, Sequences, FiniteSets, TLC

VARIABLES
    width, height, data,          \* the ImageData: const { data, width, height }
    threshold, ignoreNested, minArea, \* detectSprites' parameters
    visited,                      \* detectSprites: Uint8Array(width * height)
    rects,                        \* detectSprites: let rects: Rect[]
    transparentCount, colorCounts, maxColorCount, dominantColor,
    isTransparentBg,
    scanPos,                      \* the raster scan's index x + y * width
    queue, minX, maxX, minY, maxY, pixelCount,   \* findComponent's locals
    pc,                           \* where the running call stands
    component,                    \* history: the pixels findComponent dequeued
    comps,                        \* history: every component findComponent finished
    detected,                     \* history: rects as the scan left it
    resolved,                     \* history: the list given to resolve(rects)
    startX, startY, targetColor, tolerance, contiguous,  \* floodFill's parameters
    stack,                        \* floodFill: const stack
    input,                        \* history: the buffer floodFill was called on;
                                  \* featherEdges: const input, the copy it reads
    calls,                        \* history: the floodFill calls made so far
    amount,                       \* featherEdges' parameter, in steps of 0.5
    tempAlpha,                    \* featherEdges: const tempAlpha
    crop,                         \* cropFrame: its rect, canvas, drawImage call
                                  \* and promise
    image,                        \* App: whether the image state is set
    frames,                       \* App: the frames state, a Frame[] or undefined
    history, historyIndex,        \* App: the history and historyIndex states
    detecting,                    \* App: the historyIndex that the
                                  \* handleAutoDetect call in flight captured
    cropping                      \* App: the same of the handleMouseUp call

\* detectSprites' parameters and locals but for visited
detectLocals == <<threshold, ignoreNested, minArea, rects,
                  transparentCount, colorCounts, maxColorCount, dominantColor,
                  isTransparentBg, scanPos, queue, minX, maxX, minY, maxY,
                  pixelCount, component, comps, detected, resolved>>

detectVars == <<visited, detectLocals>>

fillVars == <<startX, startY, targetColor, tolerance, contiguous, stack, input, calls>>

editVars == <<amount, tempAlpha, crop>>

appVars == <<image, frames, history, historyIndex, detecting, cropping>>

imageVars == <<width, height, data>>

vars == <<width, height, data, pc, detectVars, fillVars, editVars, appVars>>

(***************************************************************************)
(* Bounds of the model.                                                    *)
(***************************************************************************)
CanvasW == 5      \* the canvas of the box-and-dot scenes
CanvasH == 4
SmallSide == 7    \* the square canvases of the single-box scenes
LargeSide == 10
BandGap == 8      \* the row distance of the three-box scenes
NestSide == 8     \* the canvas of the nested-box scenes

(***************************************************************************)
(* Program constants.                                                      *)
(***************************************************************************)
AlphaCutoff == 50          \* if (a < 50)
DefaultThreshold == 10     \* threshold: number = 10
DefaultMinArea == 64       \* minArea: number = 64
MinDimension == 4          \* if (w < 4 || h < 4) return null
RowBand == 15              \* if (Math.abs(rowDiff) > 15)

\* what a read outside a typed array yields (undefined): no byte has this value
Undefined == -1
\* findComponent's return null: no Rect it returns has width 0
NullRect == [x |-> 0, y |-> 0, width |-> 0, height |-> 0]

Abs(n) == IF n < 0 THEN -n ELSE n

(***************************************************************************)
(* Pixels and buffers.                                                     *)
(***************************************************************************)
Px(r, g, b, a) == [r |-> r, g |-> g, b |-> b, a |-> a]

UndefinedPx == [r |-> Undefined, g |-> Undefined, b |-> Undefined, a |-> Undefined]

\* data[index], data[index + 1], data[index + 2], data[index + 3] for a byte
\* offset index that is a multiple of 4; undefined outside the typed array
PixelAt(d, index) ==
    IF index >= 0 /\ index % 4 = 0 /\ (index \div 4) \in DOMAIN d
    THEN d[index \div 4]
    ELSE UndefinedPx

RgbOf(p) == [r |-> p.r, g |-> p.g, b |-> p.b]

NoPixels == [i \in {} |-> Px(0, 0, 0, 0)]

\* the squared Euclidean RGB distance under Math.sqrt
DistSq(p, r, g, b) ==
    (p.r - r) * (p.r - r) + (p.g - g) * (p.g - g) + (p.b - b) * (p.b - b)

PixelCount == width * height

(***************************************************************************)
(* detectSprites: background detection.                                    *)
(***************************************************************************)
\* the byte offsets the two sampling loops pass to checkPixelForBg, in order
BorderSamples(w, h) ==
    LET rows == [k \in 1..(2 * w) |->
                    LET x == (k - 1) \div 2
                    IN IF k % 2 = 1 THEN x * 4 ELSE (x + (h - 1) * w) * 4]
        nCols == IF h > 2 THEN 2 * (h - 2) ELSE 0
        cols == [k \in 1..nCols |->
                    LET y == 1 + (k - 1) \div 2
                    IN IF k % 2 = 1 THEN (y * w) * 4 ELSE (w - 1 + y * w) * 4]
    IN rows \o cols

BgStart == [transparentCount |-> 0, colorCounts |-> <<>>,
            maxColorCount |-> 0, dominantColor |-> [r |-> 0, g |-> 0, b |-> 0]]

\* colorCounts[key] || 0
CountOf(counts, key) == IF key \in DOMAIN counts THEN counts[key] ELSE 0

CheckPixelForBg(d, st, index) ==
    LET p == PixelAt(d, index)
    IN IF p.a # Undefined /\ p.a < AlphaCutoff
       THEN [st EXCEPT !.transparentCount = @ + 1]
       ELSE LET key == <<p.r, p.g, p.b>>
                n == CountOf(st.colorCounts, key) + 1
                counts == (key :> n) @@ st.colorCounts
            IN IF n > st.maxColorCount
               THEN [st EXCEPT !.colorCounts = counts,
                               !.maxColorCount = n,
                               !.dominantColor = [r |-> p.r, g |-> p.g, b |-> p.b]]
               ELSE [st EXCEPT !.colorCounts = counts]

\* checkPixelForBg on samples[lo], ..., samples[hi], in this order.  The range
\* is split in two, and the first half's result is looked at before the
\* second half starts, so that the evaluation stays shallow; a count is
\* never negative.
RECURSIVE SampleBorders(_, _, _, _, _)
SampleBorders(d, st, samples, lo, hi) ==
    IF lo > hi THEN st
    ELSE IF lo = hi THEN CheckPixelForBg(d, st, samples[lo])
    ELSE LET mid == (lo + hi) \div 2
             first == SampleBorders(d, st, samples, lo, mid)
         IN IF first.transparentCount >= 0
            THEN SampleBorders(d, first, samples, mid + 1, hi)
            ELSE first

TotalBorderPixels(w, h) == (w * 2) + (h * 2) - 4

\* a mutant of IsTransparentBg: half the border is enough
IsTransparentBgAtHalf(count, w, h) == 2 * count >= TotalBorderPixels(w, h)

\* transparentCount > (totalBorderPixels * 0.5)
IsTransparentBg(count, w, h) == 2 * count > TotalBorderPixels(w, h)

(***************************************************************************)
(* detectSprites: the sprite predicate.  dist > threshold * 2.5 is decided *)
(* on the squares: dist >= 0, and for threshold >= 0 both sides square     *)
(* exactly (4 * dist^2 > 25 * threshold^2).                                *)
(***************************************************************************)
\* a mutant of ExceedsThreshold: a distance equal to the bound passes too
ExceedsOrMeetsThreshold(d2, t) == IF t < 0 THEN TRUE ELSE 4 * d2 >= 25 * t * t

ExceedsThreshold(d2, t) == IF t < 0 THEN TRUE ELSE 4 * d2 > 25 * t * t

IsSpritePixel(index) ==
    LET p == PixelAt(data, index)
    IN IF p.a # Undefined /\ p.a < AlphaCutoff THEN FALSE
       ELSE IF isTransparentBg THEN TRUE
       ELSE IF p.a = Undefined THEN FALSE     \* dist is NaN
       ELSE ExceedsThreshold(
                DistSq(p, dominantColor.r, dominantColor.g, dominantColor.b),
                threshold)

(***************************************************************************)
(* detectSprites: findComponent.                                           *)
(***************************************************************************)
\* a mutant of Neighbors: the four diagonal neighbours are left out
NeighborsAxis(currX, currY) ==
    << [x |-> currX + 1, y |-> currY],
       [x |-> currX - 1, y |-> currY],
       [x |-> currX, y |-> currY + 1],
       [x |-> currX, y |-> currY - 1] >>

Neighbors(currX, currY) ==
    << [x |-> currX + 1, y |-> currY],
       [x |-> currX - 1, y |-> currY],
       [x |-> currX, y |-> currY + 1],
       [x |-> currX, y |-> currY - 1],
       [x |-> currX + 1, y |-> currY + 1],
       [x |-> currX - 1, y |-> currY - 1],
       [x |-> currX + 1, y |-> currY - 1],
       [x |-> currX - 1, y |-> currY + 1] >>

\* a mutant of InBounds: only the index is looked at, not the coordinates
InBoundsByIndex(n) == n.x + n.y * width >= 0 /\ n.x + n.y * width < width * height

InBounds(n) == n.x >= 0 /\ n.x < width /\ n.y >= 0 /\ n.y < height

\* visited[nIndex] = 1 on a Uint8Array: a write outside it is dropped
MarkVisited(vis, i) == IF i \in DOMAIN vis THEN [vis EXCEPT ![i] = 1] ELSE vis

\* !visited[nIndex]: undefined outside the array is falsy
IsVisited(vis, i) == i \in DOMAIN vis /\ vis[i] = 1

\* a mutant of VisitNeighbor: a rejected neighbour is queued like a sprite pixel
VisitNeighborQueuesAll(st, n) ==
    LET nIndex == n.x + n.y * width
    IN IF InBounds(n) /\ ~IsVisited(st.visited, nIndex)
       THEN [visited |-> MarkVisited(st.visited, nIndex),
             queue |-> Append(st.queue, nIndex)]
       ELSE st

\* the body of the for (const n of neighbors) loop
VisitNeighbor(st, n) ==
    LET nIndex == n.x + n.y * width
    IN IF InBounds(n) /\ ~IsVisited(st.visited, nIndex)
       THEN IF IsSpritePixel(nIndex * 4)
            THEN [visited |-> MarkVisited(st.visited, nIndex),
                  queue |-> Append(st.queue, nIndex)]
            ELSE [visited |-> MarkVisited(st.visited, nIndex),
                  queue |-> st.queue]
       ELSE st

\* the for (const n of neighbors) loop, from neighbour k on
RECURSIVE VisitNeighbors(_, _, _)
VisitNeighbors(st, nbrs, k) ==
    IF k > Len(nbrs) THEN st
    ELSE VisitNeighbors(VisitNeighbor(st, nbrs[k]), nbrs, k + 1)

\* a mutant of ComponentRect: the width is taken without the + 1
ComponentRectNarrow(count, loX, hiX, loY, hiY) ==
    LET w == hiX - loX
        h == hiY - loY + 1
    IN IF count < minArea \/ (w * h) < minArea THEN NullRect
       ELSE IF w < MinDimension \/ h < MinDimension THEN NullRect
       ELSE [x |-> loX, y |-> loY, width |-> w, height |-> h]

\* a mutant of ComponentRect: the pixel count is not compared with minArea
ComponentRectNoCount(count, loX, hiX, loY, hiY) ==
    LET w == hiX - loX + 1
        h == hiY - loY + 1
    IN IF (w * h) < minArea THEN NullRect
       ELSE IF w < MinDimension \/ h < MinDimension THEN NullRect
       ELSE [x |-> loX, y |-> loY, width |-> w, height |-> h]

\* the filter and the Rect findComponent returns
ComponentRect(count, loX, hiX, loY, hiY) ==
    LET w == hiX - loX + 1
        h == hiY - loY + 1
    IN IF count < minArea \/ (w * h) < minArea THEN NullRect
       ELSE IF w < MinDimension \/ h < MinDimension THEN NullRect
       ELSE [x |-> loX, y |-> loY, width |-> w, height |-> h]

(***************************************************************************)
(* detectSprites: post-processing.                                         *)
(***************************************************************************)
\* (a, b) => (b.width * b.height) - (a.width * a.height)
AreaDescending(a, b) == (b.width * b.height) - (a.width * a.height)

\* the comparator of the final sort
ReadingOrder(a, b) ==
    LET rowDiff == a.y - b.y
    IN IF Abs(rowDiff) > RowBand THEN rowDiff ELSE a.x - b.x

\* the call comparefn(a, b) of the two sorts
Compare(comparefn, a, b) ==
    IF comparefn = "areaDescending" THEN AreaDescending(a, b) ELSE ReadingOrder(a, b)

(***************************************************************************)
(* Array.prototype.sort(comparefn), as ECMAScript defines it: the sort is  *)
(* stable, and when comparefn is not a consistent comparison function for  *)
(* the elements the order of the result is implementation-defined, so any  *)
(* permutation of the array is a possible outcome.                         *)
(***************************************************************************)
Elems(s) == {s[i] : i \in DOMAIN s}

ConsistentOn(S, comparefn) ==
    /\ \A a \in S : Compare(comparefn, a, a) = 0
    /\ \A a, b \in S :
          /\ (Compare(comparefn, a, b) = 0) => (Compare(comparefn, b, a) = 0)
          /\ (Compare(comparefn, a, b) < 0) => (Compare(comparefn, b, a) > 0)
    /\ \A a, b, c \in S :
          /\ (Compare(comparefn, a, b) = 0 /\ Compare(comparefn, b, c) = 0)
                => (Compare(comparefn, a, c) = 0)
          /\ (Compare(comparefn, a, b) < 0 /\ Compare(comparefn, b, c) < 0)
                => (Compare(comparefn, a, c) < 0)
          /\ (Compare(comparefn, a, b) > 0 /\ Compare(comparefn, b, c) > 0)
                => (Compare(comparefn, a, c) > 0)

\* e put behind the last element of the sorted s that does not follow it
InsertSorted(s, e, comparefn) ==
    LET after == {i \in DOMAIN s : Compare(comparefn, s[i], e) <= 0}
        k == IF after = {} THEN 0 ELSE CHOOSE i \in after : \A j \in after : j <= i
    IN [i \in 1..(Len(s) + 1) |->
           IF i <= k THEN s[i] ELSE IF i = k + 1 THEN e ELSE s[i - 1]]

StableSort(s, comparefn) ==
    LET sorted[n \in 0..Len(s)] ==
            IF n = 0 THEN <<>> ELSE InsertSorted(sorted[n - 1], s[n], comparefn)
    IN sorted[Len(s)]

Reorderings(s) ==
    {[i \in DOMAIN s |-> s[p[i]]] : p \in Permutations(DOMAIN s)}

ArraySort(s, comparefn) ==
    IF ConsistentOn(Elems(s), comparefn)
    THEN {StableSort(s, comparefn)}
    ELSE Reorderings(s)

\* a mutant of IsInside: a rect on the outer's left edge is not inside it
IsInsideOffLeftEdge(inner, outer) ==
    /\ inner.x > outer.x
    /\ inner.y >= outer.y
    /\ (inner.x + inner.width) <= (outer.x + outer.width)
    /\ (inner.y + inner.height) <= (outer.y + outer.height)

\* the containment test of the inner loop
IsInside(inner, outer) ==
    /\ inner.x >= outer.x
    /\ inner.y >= outer.y
    /\ (inner.x + inner.width) <= (outer.x + outer.width)
    /\ (inner.y + inner.height) <= (outer.y + outer.height)

\* the for (let i ...) loop over the rects sorted by area, from rect i on
RECURSIVE FilterNested(_, _, _)
FilterNested(sorted, filteredRects, i) ==
    IF i > Len(sorted) THEN filteredRects
    ELSE LET inner == sorted[i]
             isContained == \E j \in DOMAIN filteredRects :
                                IsInside(inner, filteredRects[j])
         IN FilterNested(sorted,
                         IF isContained THEN filteredRects
                         ELSE Append(filteredRects, inner),
                         i + 1)

(***************************************************************************)
(* detectSprites: the img.onload handler, in steps.                        *)
(*   "load"     the image is decoded, nothing has run                      *)
(*   "scan"     in the raster scan, about to look at index scanPos         *)
(*   "bfs"      inside findComponent's while loop                          *)
(*   "nested"   the scan is over, before the ignoreNested block            *)
(*   "sort"     before the final sort                                      *)
(*   "resolved" resolve(rects) was called                                  *)
(***************************************************************************)
\* lines 39-83: the visited array, the border samples, the background model
Onload ==
    /\ pc = "load"
    /\ LET samples == BorderSamples(width, height)
           st == SampleBorders(data, BgStart, samples, 1, Len(samples))
       IN /\ transparentCount' = st.transparentCount
          /\ colorCounts' = st.colorCounts
          /\ maxColorCount' = st.maxColorCount
          /\ dominantColor' = st.dominantColor
          /\ isTransparentBg' = IsTransparentBg(st.transparentCount, width, height)
    /\ visited' = [i \in 0..(PixelCount - 1) |-> 0]
    /\ rects' = <<>>
    /\ scanPos' = 0
    /\ pc' = "scan"
    /\ UNCHANGED <<appVars, editVars, fillVars, width, height, data, threshold, ignoreNested, minArea,
                   queue, minX, maxX, minY, maxY, pixelCount, component, comps,
                   detected, resolved>>

\* a mutant of ScanCandidates: the scan does not ask isSpritePixel
ScanCandidatesUnvisited ==
    {i \in scanPos..(PixelCount - 1) : ~IsVisited(visited, i)}

\* the indices from scanPos on that the scan finds unvisited and sprite
ScanCandidates ==
    {i \in scanPos..(PixelCount - 1) : ~IsVisited(visited, i) /\ IsSpritePixel(i * 4)}

\* the scan runs up to the next unvisited sprite pixel, marking the unvisited
\* background pixels on its way, and enters findComponent there
ScanFind ==
    /\ pc = "scan"
    /\ ScanCandidates # {}
    /\ LET index == CHOOSE i \in ScanCandidates : \A j \in ScanCandidates : i <= j
           x == index % width
           y == index \div width
       IN /\ visited' = [i \in DOMAIN visited |->
                            IF i >= scanPos /\ i <= index THEN 1 ELSE visited[i]]
          /\ scanPos' = index
          /\ queue' = <<x + y * width>>
          /\ minX' = x /\ maxX' = x
          /\ minY' = y /\ maxY' = y
    /\ pixelCount' = 0
    /\ component' = {}
    /\ pc' = "bfs"
    /\ UNCHANGED <<appVars, editVars, fillVars, width, height, data, threshold, ignoreNested, minArea, rects,
                   transparentCount, colorCounts, maxColorCount, dominantColor,
                   isTransparentBg, comps, detected, resolved>>

\* the scan runs to the end of the image without finding a sprite pixel
ScanEnd ==
    /\ pc = "scan"
    /\ ScanCandidates = {}
    /\ visited' = [i \in DOMAIN visited |-> IF i >= scanPos THEN 1 ELSE visited[i]]
    /\ scanPos' = PixelCount
    /\ detected' = rects
    /\ pc' = "nested"
    /\ UNCHANGED <<appVars, editVars, fillVars, width, height, data, threshold, ignoreNested, minArea, rects,
                   transparentCount, colorCounts, maxColorCount, dominantColor,
                   isTransparentBg, queue, minX, maxX, minY, maxY, pixelCount,
                   component, comps, resolved>>

\* one iteration of findComponent's while (queue.length > 0)
BfsStep ==
    /\ pc = "bfs"
    /\ queue # <<>>
    /\ LET currIndex == Head(queue)
           currX == currIndex % width
           currY == currIndex \div width
           st == VisitNeighbors([visited |-> visited, queue |-> Tail(queue)],
                                Neighbors(currX, currY), 1)
       IN /\ pixelCount' = pixelCount + 1
          /\ minX' = IF currX < minX THEN currX ELSE minX
          /\ maxX' = IF currX > maxX THEN currX ELSE maxX
          /\ minY' = IF currY < minY THEN currY ELSE minY
          /\ maxY' = IF currY > maxY THEN currY ELSE maxY
          /\ visited' = st.visited
          /\ queue' = st.queue
          /\ component' = component \cup {currIndex}
    /\ UNCHANGED <<appVars, editVars, fillVars, width, height, data, threshold, ignoreNested, minArea, rects,
                   transparentCount, colorCounts, maxColorCount, dominantColor,
                   isTransparentBg, scanPos, pc, comps, detected, resolved>>

\* the queue drained: findComponent filters and returns, the scan goes on
FinishComponent ==
    /\ pc = "bfs"
    /\ queue = <<>>
    /\ LET rect == ComponentRect(pixelCount, minX, maxX, minY, maxY)
       IN /\ rects' = IF rect # NullRect THEN Append(rects, rect) ELSE rects
          /\ comps' = Append(comps, [pixels |-> component, pixelCount |-> pixelCount,
                                     minX |-> minX, maxX |-> maxX,
                                     minY |-> minY, maxY |-> maxY,
                                     rect |-> rect])
    /\ scanPos' = scanPos + 1
    /\ pc' = "scan"
    /\ UNCHANGED <<appVars, editVars, fillVars, width, height, data, threshold, ignoreNested, minArea, visited,
                   transparentCount, colorCounts, maxColorCount, dominantColor,
                   isTransparentBg, queue, minX, maxX, minY, maxY, pixelCount,
                   component, detected, resolved>>

\* if (ignoreNested && rects.length > 1) { ... }
SuppressNested ==
    /\ pc = "nested"
    /\ ignoreNested /\ Len(rects) > 1
    /\ \E sorted \in ArraySort(rects, "areaDescending") :
          rects' = FilterNested(sorted, <<>>, 1)
    /\ pc' = "sort"
    /\ UNCHANGED <<appVars, editVars, fillVars, width, height, data, threshold, ignoreNested, minArea, visited,
                   transparentCount, colorCounts, maxColorCount, dominantColor,
                   isTransparentBg, scanPos, queue, minX, maxX, minY, maxY,
                   pixelCount, component, comps, detected, resolved>>

SkipNested ==
    /\ pc = "nested"
    /\ ~(ignoreNested /\ Len(rects) > 1)
    /\ pc' = "sort"
    /\ UNCHANGED <<appVars, editVars, width, height, data, detectVars, fillVars>>

\* rects.sort(reading order); resolve(rects)
FinalSort ==
    /\ pc = "sort"
    /\ rects' \in ArraySort(rects, "readingOrder")
    /\ resolved' = rects'
    /\ pc' = "resolved"
    /\ UNCHANGED <<appVars, editVars, fillVars, width, height, data, threshold, ignoreNested, minArea, visited,
                   transparentCount, colorCounts, maxColorCount, dominantColor,
                   isTransparentBg, scanPos, queue, minX, maxX, minY, maxY,
                   pixelCount, component, comps, detected>>

NextDetect ==
    \/ Onload
    \/ ScanFind
    \/ ScanEnd
    \/ BfsStep
    \/ FinishComponent
    \/ SuppressNested
    \/ SkipNested
    \/ FinalSort

\* the reading-order sort applied once more, to the list already resolved
SortAgain ==
    /\ pc = "resolved"
    /\ rects' \in ArraySort(rects, "readingOrder")
    /\ pc' = "resorted"
    /\ UNCHANGED <<appVars, editVars, fillVars, width, height, data, threshold, ignoreNested, minArea, visited,
                   transparentCount, colorCounts, maxColorCount, dominantColor,
                   isTransparentBg, scanPos, queue, minX, maxX, minY, maxY,
                   pixelCount, component, comps, detected, resolved>>

\* the post-processing alone, on a list of rects
NextPost ==
    \/ SuppressNested
    \/ SkipNested
    \/ FinalSort
    \/ SortAgain

(***************************************************************************)
(* floodFill.  The two comparisons against a fraction of the tolerance are *)
(* decided on integers: a < (tolerance / 100) * 255 is                     *)
(* 100 * a < 255 * tolerance, and dist <= (tolerance / 100) * 442 squares  *)
(* to 10000 * dist^2 <= (442 * tolerance)^2 for tolerance >= 0 and is      *)
(* false for tolerance < 0.                                                *)
(***************************************************************************)
MaxDist == 442

\* a mutant of WithinTolerance: a distance equal to the threshold is refused
WithinToleranceStrict(d2, tol) ==
    tol >= 0 /\ 10000 * d2 < (MaxDist * tol) * (MaxDist * tol)

\* dist <= distThreshold
WithinTolerance(d2, tol) ==
    tol >= 0 /\ 10000 * d2 <= (MaxDist * tol) * (MaxDist * tol)

\* matchColor(idx) on the buffer d; a comparison with undefined or NaN is false
MatchColor(d, idx, target, tol) ==
    LET p == PixelAt(d, idx)
    IN IF target.a = 0
       THEN p.a # Undefined /\ 100 * p.a < 255 * tol
       ELSE IF p.a = 0 THEN FALSE
       ELSE IF p.a = Undefined \/ target.a = Undefined THEN FALSE
       ELSE WithinTolerance(DistSq(p, target.r, target.g, target.b), tol)

\* data[index] = value on the clamped byte array: a write outside it is dropped
WriteByte(d, index, value) ==
    IF index >= 0 /\ (index \div 4) \in DOMAIN d
    THEN LET i == index \div 4
         IN IF index % 4 = 0 THEN [d EXCEPT ![i].r = value]
            ELSE IF index % 4 = 1 THEN [d EXCEPT ![i].g = value]
            ELSE IF index % 4 = 2 THEN [d EXCEPT ![i].b = value]
            ELSE [d EXCEPT ![i].a = value]
    ELSE d

\* a mutant of ZeroAlpha: the alpha is halved
ZeroAlphaHalved(d, currIdx) == WriteByte(d, currIdx + 3, PixelAt(d, currIdx).a \div 2)

\* a mutant of ZeroAlpha: the write lands on the pixel's first byte
ZeroAlphaOnRed(d, currIdx) == WriteByte(d, currIdx, 0)

\* data[currIdx + 3] = 0
ZeroAlpha(d, currIdx) == WriteByte(d, currIdx + 3, 0)

\* a mutant of FillNeighbors: the diagonal neighbours are looked at as well
FillNeighborsDiagonal(cx, cy) ==
    << <<cx + 1, cy>>, <<cx - 1, cy>>, <<cx, cy + 1>>, <<cx, cy - 1>>,
       <<cx + 1, cy + 1>>, <<cx - 1, cy - 1>>, <<cx + 1, cy - 1>>, <<cx - 1, cy + 1>> >>

\* const neighbors = [[cx + 1, cy], [cx - 1, cy], [cx, cy + 1], [cx, cy - 1]]
FillNeighbors(cx, cy) ==
    << <<cx + 1, cy>>, <<cx - 1, cy>>, <<cx, cy + 1>>, <<cx, cy - 1>> >>

\* a mutant of FillNeighbor: the neighbour is pushed without matchColor
FillNeighborUnmatched(d, st, n) ==
    LET nx == n[1]
        ny == n[2]
        nOffset == ny * width + nx
    IN IF nx >= 0 /\ nx < width /\ ny >= 0 /\ ny < height
          /\ ~IsVisited(st.visited, nOffset)
       THEN [visited |-> MarkVisited(st.visited, nOffset),
             stack |-> Append(st.stack, n)]
       ELSE st

\* the body of the for (const [nx, ny] of neighbors) loop, on the buffer d
FillNeighbor(d, st, n) ==
    LET nx == n[1]
        ny == n[2]
        nOffset == ny * width + nx
    IN IF nx >= 0 /\ nx < width /\ ny >= 0 /\ ny < height
          /\ ~IsVisited(st.visited, nOffset)
          /\ MatchColor(d, nOffset * 4, targetColor, tolerance)
       THEN [visited |-> MarkVisited(st.visited, nOffset),
             stack |-> Append(st.stack, n)]
       ELSE st

RECURSIVE FillNeighborLoop(_, _, _, _)
FillNeighborLoop(d, st, nbrs, k) ==
    IF k > Len(nbrs) THEN st
    ELSE FillNeighborLoop(d, FillNeighbor(d, st, nbrs[k]), nbrs, k + 1)

\* a mutant of GlobalReplace: only a pixel of the target's very colour is erased
GlobalReplaceExact(d, target, tol) ==
    [i \in DOMAIN d |->
        IF d[i].a # 0 /\ target.a # 0 /\ RgbOf(d[i]) = RgbOf(target)
        THEN [d[i] EXCEPT !.a = 0]
        ELSE d[i]]

\* the for (let i = 0; i < data.length; i += 4) loop: iteration i reads and
\* writes the bytes of pixel i / 4 only
GlobalReplace(d, target, tol) ==
    [i \in DOMAIN d |->
        IF d[i].a # 0 /\ MatchColor(d, i * 4, target, tol)
        THEN ZeroAlpha(d, i * 4)[i]
        ELSE d[i]]

(***************************************************************************)
(* floodFill, in steps.                                                    *)
(*   "fill"    floodFill was called, nothing has run                       *)
(*   "flood"   inside the contiguous fill's while loop                     *)
(*   "filled"  floodFill returned                                          *)
(***************************************************************************)
StartIdx == startY * width + startX

\* lines 46-53 when the start pixel matches
FillStart ==
    /\ pc = "fill"
    /\ contiguous
    /\ MatchColor(data, StartIdx * 4, targetColor, tolerance)
    /\ stack' = << <<startX, startY>> >>
    /\ visited' = MarkVisited([i \in 0..(PixelCount - 1) |-> 0], StartIdx)
    /\ pc' = "flood"
    /\ UNCHANGED <<appVars, editVars, width, height, data, detectLocals,
                   startX, startY, targetColor, tolerance, contiguous, input, calls>>

\* a mutant of FillAbort: the start pixel is erased before the guard returns
FillAbortAfterWrite ==
    /\ pc = "fill"
    /\ contiguous
    /\ ~MatchColor(data, StartIdx * 4, targetColor, tolerance)
    /\ stack' = << <<startX, startY>> >>
    /\ visited' = [i \in 0..(PixelCount - 1) |-> 0]
    /\ data' = ZeroAlpha(data, StartIdx * 4)
    /\ pc' = "filled"
    /\ UNCHANGED <<appVars, editVars, width, height, detectLocals,
                   startX, startY, targetColor, tolerance, contiguous, input, calls>>

\* if (!matchColor(startIdx * 4)) return
FillAbort ==
    /\ pc = "fill"
    /\ contiguous
    /\ ~MatchColor(data, StartIdx * 4, targetColor, tolerance)
    /\ stack' = << <<startX, startY>> >>
    /\ visited' = [i \in 0..(PixelCount - 1) |-> 0]
    /\ pc' = "filled"
    /\ UNCHANGED <<appVars, editVars, width, height, data, detectLocals,
                   startX, startY, targetColor, tolerance, contiguous, input, calls>>

\* one iteration of while (stack.length > 0)
FillStep ==
    /\ pc = "flood"
    /\ stack # <<>>
    /\ LET top == stack[Len(stack)]
           cx == top[1]
           cy == top[2]
           currIdx == (cy * width + cx) * 4
           d == ZeroAlpha(data, currIdx)
           st == FillNeighborLoop(d, [visited |-> visited,
                                      stack |-> SubSeq(stack, 1, Len(stack) - 1)],
                                  FillNeighbors(cx, cy), 1)
       IN /\ data' = d
          /\ visited' = st.visited
          /\ stack' = st.stack
    /\ UNCHANGED <<appVars, editVars, width, height, pc, detectLocals,
                   startX, startY, targetColor, tolerance, contiguous, input, calls>>

\* the stack ran empty
FillReturn ==
    /\ pc = "flood"
    /\ stack = <<>>
    /\ pc' = "filled"
    /\ UNCHANGED <<appVars, editVars, width, height, data, detectVars, fillVars>>

\* the else branch: Global Color Replace
FillGlobal ==
    /\ pc = "fill"
    /\ ~contiguous
    /\ data' = GlobalReplace(data, targetColor, tolerance)
    /\ pc' = "filled"
    /\ UNCHANGED <<appVars, editVars, width, height, detectVars, fillVars>>

\* the caller calls floodFill once more, on the buffer as the first call
\* left it and with the same arguments
FillAgain ==
    /\ pc = "filled"
    /\ calls = 1
    /\ calls' = 2
    /\ input' = data
    /\ stack' = <<>>
    /\ visited' = <<>>
    /\ pc' = "fill"
    /\ UNCHANGED <<appVars, editVars, width, height, data, detectLocals,
                   startX, startY, targetColor, tolerance, contiguous>>

NextFill ==
    \/ FillStart
    \/ FillAbort
    \/ FillStep
    \/ FillReturn
    \/ FillGlobal
    \/ FillAgain

(***************************************************************************)
(* featherEdges.  amount is counted in steps of 0.5, the step of the       *)
(* feather slider.  A quotient sum / count is held as the pair of its      *)
(* integers; count = 0 makes it NaN.  The vertical pass divides a sum of   *)
(* quotients of one count by that count again, so avg is a quotient over   *)
(* count * count.  With count odd avg never lies half-way between two      *)
(* integers, and it stays further from such a point than the rounding of   *)
(* Float32Array and of the divisions can move it, so the byte the clamped  *)
(* array stores is the integer nearest to the exact quotient.              *)
(***************************************************************************)
\* a mutant of IsNoOp: only an amount of 0 returns at once
IsNoOpOnZero(a) == a = 0

\* amount <= 0
IsNoOp(a) == a <= 0

\* a mutant of Radius: the amount is rounded, not floored
RadiusRounded(a) == (a + 1) \div 2

\* Math.floor(amount)
Radius(a) == a \div 2

\* a mutant of WindowCount: one more than the samples taken
WindowCountWide(radius) == IF radius < 0 THEN 0 ELSE 2 * radius + 2

\* count after for (let k = -radius; k <= radius; k++) { ...; count++ }
WindowCount(radius) == IF radius < 0 THEN 0 ELSE 2 * radius + 1

\* Math.min(hi, Math.max(0, v))
ClampTo(hi, v) ==
    LET low == IF v > 0 THEN v ELSE 0
    IN IF low < hi THEN low ELSE hi

\* getAlpha(x, y): input[(y * width + x) * 4 + 3]
GetAlpha(x, y) == PixelAt(input, (y * width + x) * 4).a

\* sum after the horizontal loop over k, from k on
RECURSIVE RowSum(_, _, _, _)
RowSum(x, y, k, radius) ==
    IF k > radius THEN 0
    ELSE GetAlpha(ClampTo(width - 1, x + k), y) + RowSum(x, y, k + 1, radius)

\* sum after the vertical loop over k, from k on: the sum of the numerators
RECURSIVE ColumnSum(_, _, _, _)
ColumnSum(x, y, k, radius) ==
    IF k > radius THEN 0
    ELSE tempAlpha[ClampTo(height - 1, y + k) * width + x].sum
            + ColumnSum(x, y, k + 1, radius)

\* the byte data[idx + 3] = Math.min(originalAlpha, avg) stores: NaN is
\* stored as 0, another value as the integer nearest to it
StoredMin(originalAlpha, avg) ==
    IF avg.count = 0 THEN 0
    ELSE LET nearest == (2 * avg.sum + avg.count) \div (2 * avg.count)
         IN IF originalAlpha < nearest THEN originalAlpha ELSE nearest

\* a mutant of FeatheredAlpha: avg is stored without Math.min
FeatheredAlphaNoMin(originalAlpha, avg) ==
    IF originalAlpha > 0
    THEN StoredMin(255, avg)
    ELSE originalAlpha

\* a mutant of FeatheredAlpha: avg is stored whatever the original alpha
FeatheredAlphaNoGuard(originalAlpha, avg) == StoredMin(255, avg)

\* lines 150-153: the alpha byte after the write-back
FeatheredAlpha(originalAlpha, avg) ==
    IF originalAlpha > 0
    THEN StoredMin(originalAlpha, avg)
    ELSE originalAlpha

(***************************************************************************)
(* featherEdges, in steps.                                                 *)
(*   "feather"    featherEdges was called, nothing has run                 *)
(*   "vertical"   the horizontal pass is over                              *)
(*   "feathered"  featherEdges returned                                    *)
(***************************************************************************)
\* if (amount <= 0) return imageData
FeatherSkip ==
    /\ pc = "feather"
    /\ IsNoOp(amount)
    /\ pc' = "feathered"
    /\ UNCHANGED <<appVars, width, height, data, detectVars, fillVars, editVars>>

\* lines 96-124: the copy and the horizontal pass
FeatherHorizontal ==
    /\ pc = "feather"
    /\ ~IsNoOp(amount)
    /\ UNCHANGED <<appVars, width, height, data, detectVars, amount, crop,
                   startX, startY, targetColor, tolerance, contiguous, stack, calls>>
    /\ input' = data
    /\ tempAlpha' =
          [i \in 0..(PixelCount - 1) |->
              [sum |-> RowSum(i % width, i \div width, -Radius(amount), Radius(amount))',
               count |-> WindowCount(Radius(amount))]]
    /\ pc' = "vertical"

\* lines 126-157: the vertical pass and the write-back
FeatherVertical ==
    /\ pc = "vertical"
    /\ data' =
          [i \in DOMAIN data |->
              LET x == i % width
                  y == i \div width
                  count == WindowCount(Radius(amount))
                  avg == [sum |-> ColumnSum(x, y, -Radius(amount), Radius(amount)),
                          count |-> tempAlpha[i].count * count]
              IN [data[i] EXCEPT !.a = FeatheredAlpha(input[i].a, avg)]]
    /\ pc' = "feathered"
    /\ UNCHANGED <<appVars, width, height, detectVars, fillVars, editVars>>

NextFeather ==
    \/ FeatherSkip
    \/ FeatherHorizontal
    \/ FeatherVertical

(***************************************************************************)
(* cropFrame.  The promise is built from (resolve) => ... alone: it has no *)
(* reject, and nothing in img.onload looks at the rect before it is used.  *)
(*   "crop"     the image is decoded, img.onload has not run               *)
(*   "cropped"  img.onload returned                                        *)
(***************************************************************************)
\* lines 243-254 with a 2d context: the canvas takes the rect's size, the
\* rect is drawn at its origin, the promise resolves with the data URL
CropDraw ==
    /\ pc = "crop"
    /\ crop' = [crop EXCEPT
                  !.canvas = [width |-> crop.rect.width, height |-> crop.rect.height],
                  !.drawImage = << crop.rect.x, crop.rect.y,
                                   crop.rect.width, crop.rect.height,
                                   0, 0, crop.rect.width, crop.rect.height >>,
                  !.promise = "resolved"]
    /\ pc' = "cropped"
    /\ UNCHANGED <<appVars, width, height, data, detectVars, fillVars, amount, tempAlpha>>

\* lines 243-247 when getContext('2d') gives null: if (ctx) is not taken and
\* the promise stays pending
CropNoContext ==
    /\ pc = "crop"
    /\ crop' = [crop EXCEPT
                  !.canvas = [width |-> crop.rect.width, height |-> crop.rect.height]]
    /\ pc' = "cropped"
    /\ UNCHANGED <<appVars, width, height, data, detectVars, fillVars, amount, tempAlpha>>

NextCrop ==
    \/ CropDraw
    \/ CropNoContext

(***************************************************************************)
(* App: the frames history.  A Frame[] is kept as the one value "Frame[]": *)
(* no handler looks into a list before it commits.  A handler runs on the  *)
(* state of the render it was created in: commitFrames reads the           *)
(* historyIndex of that render (useCallback, [historyIndex]), while the    *)
(* updaters it hands to setHistory and setHistoryIndex get the state of    *)
(* the moment.  handleAutoDetect and handleMouseUp await before they       *)
(* commit; isProcessing keeps a second handleAutoDetect from starting.     *)
(***************************************************************************)
MaxPending == 1         \* the handlers that may stand at an await at a time
MaxHistoryLength == 50
LastHistoryIndex == 49

\* prev.slice(0, end)
Slice(list, end) ==
    IF end <= 0 THEN <<>>
    ELSE IF end >= Len(list) THEN list
    ELSE SubSeq(list, 1, end)

\* history[index]
HistoryAt(list, index) ==
    IF index >= 0 /\ index < Len(list) THEN list[index + 1] ELSE "undefined"

\* the updater given to setHistory, for the historyIndex commitFrames closed over
PushHistory(prev, capturedIndex, newFrames) ==
    LET newHistory == Append(Slice(prev, capturedIndex + 1), newFrames)
    IN IF Len(newHistory) > MaxHistoryLength THEN Tail(newHistory) ELSE newHistory

\* the updater given to setHistoryIndex
NextHistoryIndex(prev) == IF prev + 1 > LastHistoryIndex THEN LastHistoryIndex ELSE prev + 1

\* commitFrames(newFrames) of the render whose historyIndex is capturedIndex
CommitFrames(capturedIndex, newFrames) ==
    /\ frames' = newFrames
    /\ history' = PushHistory(history, capturedIndex, newFrames)
    /\ historyIndex' = NextHistoryIndex(historyIndex)

\* with frames undefined the next render throws at frames.length and the
\* component is gone
Mounted == pc = "app" /\ frames # "undefined"

\* another handler may go up to its await
MayAwait == Cardinality(detecting) + Cardinality(cropping) < MaxPending

\* img.onload of handleFileChange and handleImageUpdate: commitFrames([], true)
LoadImage ==
    /\ Mounted
    /\ image' = TRUE
    /\ frames' = "Frame[]"
    /\ history' = <<"Frame[]">>
    /\ historyIndex' = 0
    /\ UNCHANGED <<imageVars, pc, detectVars, fillVars, editVars, detecting, cropping>>

\* handleDeleteSingle, handleDeleteSelected and the clear button:
\* commitFrames(frames.filter(...)), commitFrames([])
DeleteFrames ==
    /\ Mounted /\ image
    /\ CommitFrames(historyIndex, "Frame[]")
    /\ UNCHANGED <<imageVars, pc, detectVars, fillVars, editVars, image, detecting, cropping>>

\* handleMouseUp up to await cropFrame(image.url, tempRect)
MouseUpStart ==
    /\ Mounted /\ image
    /\ cropping = {} /\ MayAwait
    /\ cropping' = {historyIndex}
    /\ UNCHANGED <<imageVars, pc, detectVars, fillVars, editVars,
                   image, frames, history, historyIndex, detecting>>

\* handleMouseUp from the await on: commitFrames([...frames, newFrame])
MouseUpCommit ==
    /\ Mounted
    /\ \E capturedIndex \in cropping : CommitFrames(capturedIndex, "Frame[]")
    /\ cropping' = {}
    /\ UNCHANGED <<imageVars, pc, detectVars, fillVars, editVars, image, detecting>>

\* handleAutoDetect up to its first await
AutoDetectStart ==
    /\ Mounted /\ image
    /\ detecting = {} /\ MayAwait
    /\ detecting' = {historyIndex}
    /\ UNCHANGED <<imageVars, pc, detectVars, fillVars, editVars,
                   image, frames, history, historyIndex, cropping>>

\* handleAutoDetect: uniqueRects is empty, or detectSprites or cropFrame threw
AutoDetectNothing ==
    /\ Mounted
    /\ detecting # {}
    /\ detecting' = {}
    /\ UNCHANGED <<imageVars, pc, detectVars, fillVars, editVars,
                   image, frames, history, historyIndex, cropping>>

\* handleAutoDetect: commitFrames([...frames, ...detectedFrames])
AutoDetectCommit ==
    /\ Mounted
    /\ \E capturedIndex \in detecting : CommitFrames(capturedIndex, "Frame[]")
    /\ detecting' = {}
    /\ UNCHANGED <<imageVars, pc, detectVars, fillVars, editVars, image, cropping>>

Undo ==
    /\ Mounted
    /\ historyIndex > 0
    /\ historyIndex' = historyIndex - 1
    /\ frames' = HistoryAt(history, historyIndex - 1)
    /\ UNCHANGED <<imageVars, pc, detectVars, fillVars, editVars,
                   image, history, detecting, cropping>>

Redo ==
    /\ Mounted
    /\ historyIndex < Len(history) - 1
    /\ historyIndex' = historyIndex + 1
    /\ frames' = HistoryAt(history, historyIndex + 1)
    /\ UNCHANGED <<imageVars, pc, detectVars, fillVars, editVars,
                   image, history, detecting, cropping>>

NextApp ==
    \/ LoadImage
    \/ DeleteFrames
    \/ MouseUpStart
    \/ MouseUpCommit
    \/ AutoDetectStart
    \/ AutoDetectNothing
    \/ AutoDetectCommit
    \/ Undo
    \/ Redo

(***************************************************************************)
(* Input images.  A scene is a canvas of one pixel value on which filled   *)
(* boxes are painted in turn, a later box over an earlier one.             *)
(***************************************************************************)
PxClear == Px(0, 0, 0, 0)
PxRed == Px(255, 0, 0, 255)
PxGrey == Px(200, 200, 200, 255)

Rect(x, y, w, h) == [x |-> x, y |-> y, width |-> w, height |-> h]

Layer(box, px) == [box |-> box, px |-> px]

Covers(box, x, y) ==
    /\ x >= box.x /\ x < box.x + box.width
    /\ y >= box.y /\ y < box.y + box.height

Scene(w, h, base, layers) ==
    [i \in 0..(w * h - 1) |->
        LET x == i % w
            y == i \div w
            hits == {k \in DOMAIN layers : Covers(layers[k].box, x, y)}
        IN IF hits = {} THEN base
           ELSE layers[CHOOSE k \in hits : \A j \in hits : j <= k].px]

\* the boxes that lie on a w x h canvas
BoxesIn(w, h) ==
    {b \in {Rect(x, y, bw, bh) :
               x \in 0..(w - 1), y \in 0..(h - 1), bw \in 1..w, bh \in 1..h} :
        b.x + b.width <= w /\ b.y + b.height <= h}

\* a box that leaves the 1-pixel border of a w x h canvas free
IsInset(box, w, h) ==
    /\ box.x >= 1 /\ box.y >= 1
    /\ box.x + box.width <= w - 1 /\ box.y + box.height <= h - 1

\* no featherEdges or cropFrame call is under way
NoCrop == [rect |-> Rect(0, 0, 0, 0), canvas |-> [width |-> 0, height |-> 0],
           drawImage |-> <<>>, promise |-> "pending"]

\* the App component as it is constructed
NoApp ==
    /\ image = FALSE /\ frames = "Frame[]"
    /\ history = <<>> /\ historyIndex = -1
    /\ detecting = {} /\ cropping = {}

NoEdit == amount = 0 /\ tempAlpha = <<>> /\ crop = NoCrop /\ NoApp

\* no floodFill call is under way
NoFill ==
    /\ startX = 0 /\ startY = 0
    /\ targetColor = PxClear /\ tolerance = 0 /\ contiguous = FALSE
    /\ stack = <<>> /\ input = NoPixels /\ calls = 0

\* the state before img.onload runs
Loaded(w, h, d, t, nested, area) ==
    /\ width = w /\ height = h /\ data = d
    /\ threshold = t /\ ignoreNested = nested /\ minArea = area
    /\ visited = <<>> /\ rects = <<>>
    /\ transparentCount = 0 /\ colorCounts = <<>> /\ maxColorCount = 0
    /\ dominantColor = [r |-> 0, g |-> 0, b |-> 0]
    /\ isTransparentBg = FALSE
    /\ scanPos = 0
    /\ queue = <<>> /\ minX = 0 /\ maxX = 0 /\ minY = 0 /\ maxY = 0
    /\ pixelCount = 0
    /\ pc = "load"
    /\ component = {} /\ comps = <<>>
    /\ detected = <<>> /\ resolved = <<>>
    /\ NoFill /\ NoEdit

\* One box and one more pixel on a CanvasW x CanvasH canvas, transparent or
\* grey: the pixel is sprite on a corner diagonal of the box or one pixel
\* away from it, or it knocks a corner out of the box.  minArea is the box's
\* area or one more.
DotsAround(box, w, h) ==
    {l \in { Layer(Rect(box.x - 1, box.y - 1, 1, 1), PxRed),
             Layer(Rect(box.x + box.width, box.y + box.height, 1, 1), PxRed),
             Layer(Rect(box.x + box.width, box.y - 1, 1, 1), PxRed),
             Layer(Rect(box.x - 1, box.y + box.height, 1, 1), PxRed),
             Layer(Rect(box.x + box.width + 1, box.y, 1, 1), PxRed),
             Layer(Rect(box.x, box.y, 1, 1), PxClear) } :
        /\ l.box.x >= 0 /\ l.box.x < w
        /\ l.box.y >= 0 /\ l.box.y < h}

InitBoxDot ==
    \E base \in {PxClear, PxGrey}, box \in BoxesIn(CanvasW, CanvasH) :
       \E dots \in {<<>>} \cup {<<l>> : l \in DotsAround(box, CanvasW, CanvasH)},
          area \in {box.width * box.height, box.width * box.height + 1} :
          Loaded(CanvasW, CanvasH,
                 Scene(CanvasW, CanvasH, base, <<Layer(box, PxRed)>> \o dots),
                 DefaultThreshold, FALSE, area)

\* One opaque box inside the border of a transparent square canvas; the
\* default minArea on the larger canvas.
InitSquare ==
    \/ \E box \in BoxesIn(SmallSide, SmallSide), area \in {16, 25} :
          /\ IsInset(box, SmallSide, SmallSide)
          /\ Loaded(SmallSide, SmallSide,
                    Scene(SmallSide, SmallSide, PxClear, <<Layer(box, PxRed)>>),
                    DefaultThreshold, FALSE, area)
    \/ \E box \in BoxesIn(LargeSide, LargeSide) :
          /\ IsInset(box, LargeSide, LargeSide)
          /\ box.width >= LargeSide - 3 /\ box.height >= LargeSide - 3
          /\ Loaded(LargeSide, LargeSide,
                    Scene(LargeSide, LargeSide, PxClear, <<Layer(box, PxRed)>>),
                    DefaultThreshold, FALSE, DefaultMinArea)

\* Three 4 x 4 boxes in rows BandGap apart, each at its own x.
BandW == 2 + MinDimension
BandH == 2 * BandGap + MinDimension

InitBands ==
    \E base \in {PxClear, PxGrey}, nested \in BOOLEAN,
       x1 \in 0..2, x2 \in 0..2, x3 \in 0..2 :
       Loaded(BandW, BandH,
              Scene(BandW, BandH, base,
                    << Layer(Rect(x1, 0, MinDimension, MinDimension), PxRed),
                       Layer(Rect(x2, BandGap, MinDimension, MinDimension), PxRed),
                       Layer(Rect(x3, 2 * BandGap, MinDimension, MinDimension), PxRed) >>),
              DefaultThreshold, nested, 16)

\* An L of two bars and a 4 x 4 box in its elbow: the box's Rect lies inside
\* the L's, sticks out of it, or the box touches the L and joins it.
InitNested ==
    \E nested \in BOOLEAN, bx \in 2..(NestSide - 4), by \in 0..(NestSide - 4),
       area \in {10, 16} :
       Loaded(NestSide, NestSide,
              Scene(NestSide, NestSide, PxClear,
                    << Layer(Rect(1, 1, 1, NestSide - 2), PxRed),
                       Layer(Rect(1, NestSide - 2, NestSide - 2, 1), PxRed),
                       Layer(Rect(bx, by, MinDimension, MinDimension), PxRed) >>),
              DefaultThreshold, nested, area)

\* A canvas of one pixel value throughout, transparent or opaque.
InitBlank ==
    \E base \in {PxClear, PxGrey, PxRed}, nested \in BOOLEAN,
       area \in {1, DefaultMinArea} :
       Loaded(CanvasW, CanvasH, Scene(CanvasW, CanvasH, base, <<>>),
              DefaultThreshold, nested, area)

\* One pixel of another shade on a transparent or grey canvas, in a corner or
\* off the border: nearly transparent, barely opaque, or at an RGB distance
\* from the grey just below, at or just above 2.5 times the threshold.
Shades ==
    { Px(255, 0, 0, 49), Px(255, 0, 0, 50),
      Px(201, 200, 200, 255),                            \* distance 1
      Px(202, 201, 201, 255), Px(202, 202, 200, 255),    \* squared 6 and 8
      Px(224, 200, 200, 255), Px(225, 200, 200, 255),    \* 24 and 25
      Px(215, 220, 200, 255), Px(226, 200, 200, 255) }   \* 25 and 26

InitShades ==
    \E base \in {PxClear, PxGrey}, shade \in Shades, t \in {0, 1, DefaultThreshold},
       at \in {Rect(0, 0, 1, 1), Rect(1, 1, 1, 1)} :
       Loaded(CanvasW, CanvasH,
              Scene(CanvasW, CanvasH, base, <<Layer(at, shade)>>),
              t, FALSE, 1)

\* A strip one pixel wide or one pixel high, down to the single pixel:
\* transparent or grey, with one pixel that may differ.  Under a negative
\* threshold every opaque pixel is a sprite pixel, the single pixel too.
StripLen == 3

InitStrip ==
    \E len \in 1..StripLen, upright \in BOOLEAN, base \in {PxClear, PxGrey},
       k \in 0..(StripLen - 1), px \in {PxClear, PxGrey, PxRed},
       t \in {-1, DefaultThreshold} :
       LET w == IF upright THEN 1 ELSE len
           h == IF upright THEN len ELSE 1
           at == IF upright THEN Rect(0, k, 1, 1) ELSE Rect(k, 0, 1, 1)
       IN /\ k < len
          /\ Loaded(w, h, Scene(w, h, base, <<Layer(at, px)>>), t, FALSE, 1)

InitDetect ==
    \/ InitBoxDot \/ InitSquare \/ InitBands \/ InitNested \/ InitBlank
    \/ InitShades \/ InitStrip

SpecDetect == InitDetect /\ [][NextDetect]_vars

(***************************************************************************)
(* Input lists of the post-processing taken alone: up to MaxRects rects,   *)
(* each a 4 x 4 rect of the three-box scenes, a rect one row higher, or    *)
(* the rect that spans the upper two rows of boxes.                        *)
(***************************************************************************)
MaxRects == 3

RectPool ==
    {Rect(x, k * BandGap, MinDimension, MinDimension) : x \in 0..2, k \in 0..2}
        \cup {Rect(0, 0, MinDimension, MinDimension + 1),
              Rect(0, 0, BandW, BandGap + MinDimension)}

RectLists == UNION {[1..n -> RectPool] : n \in 0..MaxRects}

\* the state the scan leaves when it has found the rects of list
Scanned(list, nested) ==
    /\ width = BandW /\ height = BandH /\ data = NoPixels
    /\ threshold = DefaultThreshold /\ ignoreNested = nested /\ minArea = 16
    /\ visited = <<>> /\ rects = list
    /\ transparentCount = 0 /\ colorCounts = <<>> /\ maxColorCount = 0
    /\ dominantColor = [r |-> 0, g |-> 0, b |-> 0]
    /\ isTransparentBg = TRUE
    /\ scanPos = 0
    /\ queue = <<>> /\ minX = 0 /\ maxX = 0 /\ minY = 0 /\ maxY = 0
    /\ pixelCount = 0
    /\ pc = "nested"
    /\ component = {} /\ comps = <<>>
    /\ detected = list /\ resolved = <<>>
    /\ NoFill /\ NoEdit

InitPost == \E list \in RectLists, nested \in BOOLEAN : Scanned(list, nested)

SpecPost == InitPost /\ [][NextPost]_vars

(***************************************************************************)
(* floodFill calls.  The target is the pixel handleWand samples at the     *)
(* seed, or a colour of the caller's own; a seed may lie off the canvas.   *)
(***************************************************************************)
FillW == 3        \* the canvas of the box-and-dot fills
FillH == 2
BlockSide == 10   \* the side of the closed block

PxPink == Px(255, 100, 100, 255)
PxFaint == Px(255, 0, 0, 49)

\* tolerances of the wand slider, its ends, and one beyond each end
FillTolerances == {-1, 0, 31, 32, 100, 101}

\* no detectSprites call is under way
NoDetect ==
    /\ threshold = DefaultThreshold /\ ignoreNested = FALSE
    /\ minArea = DefaultMinArea
    /\ rects = <<>>
    /\ transparentCount = 0 /\ colorCounts = <<>> /\ maxColorCount = 0
    /\ dominantColor = [r |-> 0, g |-> 0, b |-> 0]
    /\ isTransparentBg = FALSE
    /\ scanPos = 0
    /\ queue = <<>> /\ minX = 0 /\ maxX = 0 /\ minY = 0 /\ maxY = 0
    /\ pixelCount = 0
    /\ component = {} /\ comps = <<>>
    /\ detected = <<>> /\ resolved = <<>>

\* the state on entry to floodFill
Filling(w, h, d, x, y, target, tol, contig) ==
    /\ width = w /\ height = h /\ data = d
    /\ startX = x /\ startY = y
    /\ targetColor = target /\ tolerance = tol /\ contiguous = contig
    /\ stack = <<>> /\ visited = <<>>
    /\ input = d /\ calls = 1
    /\ pc = "fill"
    /\ NoDetect /\ NoEdit

\* handleWand: the pixel read at idx = (y * canvas.width + x) * 4
Sampled(w, d, x, y) == PixelAt(d, (y * w + x) * 4)

\* the seeds: the box's first pixel, the other pixel, the two ends of the
\* canvas, one past the end of the first row, and one before its start
Seeds(w, h, box, dot) ==
    {<<box.x, box.y>>, <<dot.x, dot.y>>, <<0, 0>>, <<w - 1, h - 1>>,
     <<w, 0>>, <<-1, 0>>}

\* A red box and one more pixel, red, pink or faint, on a transparent or
\* grey canvas; the pixel lies by the box as in the box-and-dot scenes.
InitFillDots ==
    \E base \in {PxClear, PxGrey}, box \in BoxesIn(FillW, FillH),
       px \in {PxRed, PxPink, PxFaint},
       tol \in FillTolerances, contig \in BOOLEAN :
       \E at \in DotsAround(box, FillW, FillH) :
          LET dot == at.box
              d == Scene(FillW, FillH, base, <<Layer(box, PxRed), Layer(dot, px)>>)
          IN \E seed \in Seeds(FillW, FillH, box, dot) :
                \E target \in {Sampled(FillW, d, seed[1], seed[2]), PxRed} :
                   Filling(FillW, FillH, d, seed[1], seed[2], target, tol, contig)

\* A closed BlockSide x BlockSide opaque block inside a 1-pixel frame of
\* pixels that do not match it, clicked at a corner or inside.
InitFillBlock ==
    \E base \in {PxClear, PxGrey}, at \in {1, BlockSide \div 2}, contig \in BOOLEAN :
       LET side == BlockSide + 2
           d == Scene(side, side, base, <<Layer(Rect(1, 1, BlockSide, BlockSide), PxRed)>>)
       IN Filling(side, side, d, at, at, Sampled(side, d, at, at), 32, contig)

InitFill == InitFillDots \/ InitFillBlock

SpecFill == InitFill /\ [][NextFill]_vars

(***************************************************************************)
(* featherEdges calls.                                                     *)
(***************************************************************************)
FeatherW == 3     \* the canvas of the box-and-dot feathers
FeatherH == 3
OpaqueSide == 7   \* the side of the fully opaque canvas

PxHalf == Px(0, 255, 0, 128)

\* amounts -1, 0, 0.5, 1, 1.5 and 2, in steps of 0.5
FeatherAmounts == {-2, 0, 1, 2, 3, 4}

\* the state on entry to featherEdges
Feathering(w, h, d, a) ==
    /\ width = w /\ height = h /\ data = d
    /\ amount = a /\ tempAlpha = <<>> /\ crop = NoCrop
    /\ input = d
    /\ startX = 0 /\ startY = 0
    /\ targetColor = PxClear /\ tolerance = 0 /\ contiguous = FALSE
    /\ stack = <<>> /\ visited = <<>> /\ calls = 0
    /\ pc = "feather"
    /\ NoDetect /\ NoApp

\* A box and one more pixel by it, faint or half transparent, on a
\* transparent or opaque canvas.
InitFeatherDots ==
    \E base \in {PxClear, PxRed}, box \in BoxesIn(FeatherW, FeatherH),
       px \in {PxFaint, PxHalf}, a \in FeatherAmounts :
       \E at \in DotsAround(box, FeatherW, FeatherH) :
          Feathering(FeatherW, FeatherH,
                     Scene(FeatherW, FeatherH, base,
                           << Layer(box, IF base = PxRed THEN PxClear ELSE PxRed),
                              Layer(at.box, px) >>),
                     a)

\* An image of alpha 255 throughout, feathered with a radius of 1 or more.
InitFeatherOpaque ==
    \E px \in {PxRed, PxGrey}, a \in {a \in FeatherAmounts : Radius(a) >= 1} :
       Feathering(OpaqueSide, OpaqueSide,
                  Scene(OpaqueSide, OpaqueSide, px, <<>>), a)

InitFeather == InitFeatherDots \/ InitFeatherOpaque

SpecFeather == InitFeather /\ [][NextFeather]_vars

(***************************************************************************)
(* cropFrame calls: an opaque image of CropSide x CropSide pixels and a    *)
(* rect whose origin and size run from -1 to beyond the image.             *)
(***************************************************************************)
CropSide == 3

CropRects ==
    {Rect(x, y, w, h) : x \in -1..CropSide, y \in -1..CropSide,
                        w \in -1..(CropSide + 1), h \in -1..(CropSide + 1)}

InitCrop ==
    \E r \in CropRects :
       /\ width = CropSide /\ height = CropSide
       /\ data = Scene(CropSide, CropSide, PxRed, <<>>)
       /\ crop = [NoCrop EXCEPT !.rect = r]
       /\ amount = 0 /\ tempAlpha = <<>>
       /\ visited = <<>>
       /\ pc = "crop"
       /\ NoDetect /\ NoFill /\ NoApp

SpecCrop == InitCrop /\ [][NextCrop]_vars

(***************************************************************************)
(* The App component, constructed and not yet given an image.              *)
(***************************************************************************)
InitApp ==
    /\ width = 0 /\ height = 0 /\ data = NoPixels
    /\ visited = <<>>
    /\ pc = "app"
    /\ NoDetect /\ NoFill /\ NoEdit

SpecApp == InitApp /\ [][NextApp]_vars

(***************************************************************************)
(* What the claims speak of, computed from the image alone.                *)
(***************************************************************************)
XOf(i) == i % width
YOf(i) == i \div width

MinOf(S) == CHOOSE m \in S : \A n \in S : m <= n
MaxOf(S) == CHOOSE m \in S : \A n \in S : m >= n

\* the bounding Rect of a non-empty set of pixel indices
BoundingRect(P) ==
    LET xs == {XOf(i) : i \in P}
        ys == {YOf(i) : i \in P}
    IN Rect(MinOf(xs), MinOf(ys), MaxOf(xs) - MinOf(xs) + 1, MaxOf(ys) - MinOf(ys) + 1)

OpaquePixels == {i \in DOMAIN data : data[i].a = 255}

\* the image is fully transparent but for one filled, fully opaque box
IsLoneBoxScene ==
    /\ OpaquePixels # {}
    /\ \A i \in DOMAIN data : data[i].a \in {0, 255}
    /\ LET box == BoundingRect(OpaquePixels)
       IN Cardinality(OpaquePixels) = box.width * box.height

LoneBox == BoundingRect(OpaquePixels)

\* the 1-pixel border of the image, as pixel indices
BorderPixels ==
    {i \in DOMAIN data : XOf(i) = 0 \/ XOf(i) = width - 1 \/ YOf(i) = 0 \/ YOf(i) = height - 1}

BorderTransparent == {i \in BorderPixels : data[i].a < AlphaCutoff}
BorderOpaque == BorderPixels \ BorderTransparent

\* how many opaque border pixels have the colour c
BorderCount(c) == Cardinality({i \in BorderOpaque : RgbOf(data[i]) = c})

(***************************************************************************)
(* C1: a lone opaque box inside the border of a transparent canvas, at     *)
(* least 4 wide and high and of an area of at least minArea, is returned   *)
(* as the one Rect (threshold 10, ignoreNested false).                     *)
(***************************************************************************)
C1_Case ==
    /\ IsLoneBoxScene
    /\ IsInset(LoneBox, width, height)
    /\ LoneBox.width >= 4 /\ LoneBox.height >= 4
    /\ LoneBox.width * LoneBox.height >= minArea
    /\ threshold = 10 /\ ~ignoreNested

C1_LoneBoxDetected ==
    (pc = "resolved" /\ C1_Case) => rects = <<LoneBox>>

C1_Witness ==
    /\ pc = "resolved" /\ C1_Case
    /\ minArea = 64
    /\ rects = <<LoneBox>>

(***************************************************************************)
(* C2: every Rect in rects, before or after post-processing, is the Rect   *)
(* of a component whose dequeued pixels are sprite pixels and touch each   *)
(* of the Rect's four edges; inside findComponent the running bounds are   *)
(* attained by the start pixel or a dequeued pixel, never by a rejected    *)
(* neighbour.                                                              *)
(***************************************************************************)
TouchesEdges(r, P) ==
    /\ \E i \in P : YOf(i) = r.y /\ IsSpritePixel(i * 4)
    /\ \E i \in P : YOf(i) = r.y + r.height - 1 /\ IsSpritePixel(i * 4)
    /\ \E i \in P : XOf(i) = r.x /\ IsSpritePixel(i * 4)
    /\ \E i \in P : XOf(i) = r.x + r.width - 1 /\ IsSpritePixel(i * 4)

C2_BoundingBoxTight ==
    /\ pc # "bfs" =>
          \A k \in DOMAIN rects :
             \E j \in DOMAIN comps :
                /\ comps[j].rect = rects[k]
                /\ comps[j].pixels # {}
                /\ rects[k] = BoundingRect(comps[j].pixels)
                /\ TouchesEdges(rects[k], comps[j].pixels)
    /\ pc = "bfs" =>
          LET P == component \cup {scanPos}
          IN /\ Rect(minX, minY, maxX - minX + 1, maxY - minY + 1) = BoundingRect(P)
             /\ queue = <<>> => \A i \in P : IsSpritePixel(i * 4)

\* a Rect was emitted and the flood fill marked a rejected pixel outside it
C2_Witness ==
    /\ pc = "scan" /\ Len(rects) = 1 /\ Len(comps) = 1
    /\ \E i \in DOMAIN visited :
          /\ i > scanPos /\ visited[i] = 1
          /\ ~IsSpritePixel(i * 4)
          /\ ~Covers(rects[1], XOf(i), YOf(i))

(***************************************************************************)
(* C3: a finished component yields a Rect exactly when none of             *)
(* pixelCount < minArea, width * height < minArea, width < 4, height < 4   *)
(* holds of its pixels and their bounding box; until post-processing rects *)
(* holds the Rects of the components that yielded one, in order.           *)
(***************************************************************************)
Rejected(P) ==
    LET box == BoundingRect(P)
    IN \/ Cardinality(P) < minArea
       \/ box.width * box.height < minArea
       \/ box.width < 4
       \/ box.height < 4

RECURSIVE Emitted(_, _)
Emitted(cs, k) ==
    IF k = 0 THEN <<>>
    ELSE IF cs[k].rect = NullRect THEN Emitted(cs, k - 1)
    ELSE Append(Emitted(cs, k - 1), cs[k].rect)

C3_AcceptanceFilter ==
    pc \in {"scan", "nested"} =>
        /\ \A j \in DOMAIN comps :
              /\ comps[j].pixels # {}
              /\ (comps[j].rect # NullRect) <=> ~Rejected(comps[j].pixels)
              /\ (comps[j].rect # NullRect) =>
                    comps[j].rect = BoundingRect(comps[j].pixels)
        /\ rects = Emitted(comps, Len(comps))

\* a component at least 4 x 4 and of an area of at least minArea was dropped
\* for its pixel count alone
C3_Witness ==
    \E j \in DOMAIN comps :
       LET box == BoundingRect(comps[j].pixels)
       IN /\ comps[j].rect = NullRect
          /\ rects = <<>>
          /\ box.width >= 4 /\ box.height >= 4
          /\ box.width * box.height >= minArea
          /\ Cardinality(comps[j].pixels) < minArea

(***************************************************************************)
(* C4: on an image at least 2 x 2 the background is transparent exactly    *)
(* when more than half of the 2 * width + 2 * height - 4 border pixels     *)
(* have alpha < 50, and otherwise dominantColor is a colour no other       *)
(* colour outnumbers among the border pixels of alpha >= 50.  (Stated of   *)
(* the state the background detection leaves; nothing writes the model     *)
(* later.)                                                                 *)
(***************************************************************************)
BackgroundDetected == pc = "scan" /\ scanPos = 0

C4_BackgroundModel ==
    (BackgroundDetected /\ width >= 2 /\ height >= 2) =>
        /\ isTransparentBg <=>
              2 * Cardinality(BorderTransparent) > 2 * width + 2 * height - 4
        /\ ~isTransparentBg =>
              /\ BorderCount(dominantColor) > 0
              /\ \A i \in BorderOpaque :
                    BorderCount(RgbOf(data[i])) <= BorderCount(dominantColor)

\* a solid background found on a border that holds transparent pixels and
\* two colours
C4_Witness ==
    /\ BackgroundDetected
    /\ ~isTransparentBg
    /\ BorderTransparent # {}
    /\ \E i, j \in BorderOpaque : RgbOf(data[i]) # RgbOf(data[j])
    /\ dominantColor = [r |-> 200, g |-> 200, b |-> 200]

(***************************************************************************)
(* C5: after the nested-rect suppression (ignoreNested set), whatever the  *)
(* list of rects the scan found, no rect of rects lies within a rect at    *)
(* another position of rects, all four edges compared and equality         *)
(* allowed, so a rect equal to a kept one is gone; every rect kept is one  *)
(* the scan found, and every rect the scan found lies within a kept one.   *)
(***************************************************************************)
ContainedIn(a, b) ==
    /\ b.x <= a.x /\ b.y <= a.y
    /\ a.x + a.width <= b.x + b.width
    /\ a.y + a.height <= b.y + b.height

C5_ContainmentClosure ==
    (ignoreNested /\ pc \in {"sort", "resolved", "resorted"}) =>
        /\ \A i, j \in DOMAIN rects : i # j => ~ContainedIn(rects[i], rects[j])
        /\ Elems(rects) \subseteq Elems(detected)
        /\ \A i \in DOMAIN detected :
              \E j \in DOMAIN rects : ContainedIn(detected[i], rects[j])

\* the scan found a rect twice and a third rect they lie in: one rect is left
C5_Witness ==
    /\ ignoreNested /\ pc = "sort"
    /\ Len(detected) = 3 /\ Len(rects) = 1
    /\ \E i, j, k \in DOMAIN detected :
          /\ i # j /\ detected[i] = detected[j]
          /\ detected[k] # detected[i]
          /\ ContainedIn(detected[i], detected[k])
          /\ rects = <<detected[k]>>

(***************************************************************************)
(* C6: the reading-order sort applied to a list of rects and then again to *)
(* its result gives the order the first sort gave, and the comparator is a *)
(* consistent total order on the rects of the list.                        *)
(***************************************************************************)
C6_ReadingOrderIdempotent ==
    pc = "resorted" =>
        /\ rects = resolved
        /\ ConsistentOn(Elems(rects), "readingOrder")

(***************************************************************************)
(* C7: in the list detectSprites resolves with, ignoreNested set or not,   *)
(* for every rect a before a rect b: a.y < b.y when |a.y - b.y| > 15, and  *)
(* a.x <= b.x when |a.y - b.y| <= 15.                                      *)
(***************************************************************************)
C7_ReadingOrderPairs ==
    pc = "resolved" =>
        \A i, j \in DOMAIN rects :
           i < j => IF Abs(rects[i].y - rects[j].y) > 15
                    THEN rects[i].y < rects[j].y
                    ELSE rects[i].x <= rects[j].x

(***************************************************************************)
(* What the flood fill claims speak of, computed from the buffer floodFill *)
(* was called on.                                                          *)
(***************************************************************************)
\* the pixels that match the target criteria
Matching(d) == {i \in DOMAIN d : MatchColor(d, i * 4, targetColor, tolerance)}

Adjacent4(i, j) ==
    \/ XOf(i) = XOf(j) /\ Abs(YOf(i) - YOf(j)) = 1
    \/ YOf(i) = YOf(j) /\ Abs(XOf(i) - XOf(j)) = 1

\* S and all of M that steps between 4-adjacent pixels of M reach from S
RECURSIVE Spread(_, _)
Spread(S, M) ==
    LET T == S \cup {j \in M : \E i \in S : Adjacent4(i, j)}
    IN IF T = S THEN S ELSE Spread(T, M)

Reach4(d, seed) ==
    IF seed \in Matching(d) THEN Spread({seed}, Matching(d)) ELSE {}

\* the called-on buffer with alpha 0 on the pixels of S
ErasedTo(S) ==
    [i \in DOMAIN input |-> IF i \in S THEN [input[i] EXCEPT !.a = 0] ELSE input[i]]

SeedInBounds ==
    /\ startX >= 0 /\ startX < width
    /\ startY >= 0 /\ startY < height

(***************************************************************************)
(* C8: a contiguous floodFill whose seed lies on the canvas and matches    *)
(* the target leaves the called-on buffer with alpha 0 on exactly the      *)
(* pixels that steps between 4-adjacent matching pixels reach from the     *)
(* seed, every other pixel as it was; a closed BlockSide x BlockSide block *)
(* in a non-matching frame loses the alpha of its BlockSide^2 pixels.      *)
(***************************************************************************)
C8_ContiguousFill ==
    (pc = "filled" /\ contiguous /\ SeedInBounds /\ StartIdx \in Matching(input)) =>
        data = ErasedTo(Reach4(input, StartIdx))

\* the closed block (10 x 10) lost the alpha of its pixels (100) and no other
C8_Witness ==
    /\ pc = "filled" /\ contiguous /\ SeedInBounds
    /\ StartIdx \in Matching(input)
    /\ width = BlockSide + 2 /\ height = BlockSide + 2
    /\ {i \in DOMAIN data : data[i] # input[i]} = Reach4(input, StartIdx)
    /\ Cardinality({i \in DOMAIN data : data[i].a = 0 /\ input[i].a = 255})
          = BlockSide * BlockSide
    /\ \A i \in DOMAIN data :
          Covers(Rect(1, 1, BlockSide, BlockSide), XOf(i), YOf(i))
             <=> data[i] # input[i]

(***************************************************************************)
(* C9: a global floodFill leaves the called-on buffer with alpha 0 on      *)
(* every pixel that matches the target, wherever it lies, every other      *)
(* pixel as it was.  With the target sampled at an opaque seed on the      *)
(* canvas and a tolerance of 0 or more, a pixel of the seed's colour that  *)
(* no steps between 4-adjacent matching pixels reach from the seed is left *)
(* as it was by the contiguous fill and erased by the global one, and the  *)
(* seed's own region is erased by both.  (Below 0 no pixel matches, the    *)
(* seed's included: see C18.)                                              *)
(***************************************************************************)
SeedColoured == {i \in DOMAIN input : input[i] = targetColor}

C9_GlobalFill ==
    pc = "filled" =>
        /\ ~contiguous => data = ErasedTo(Matching(input))
        /\ (SeedInBounds /\ targetColor = Sampled(width, input, startX, startY)
               /\ targetColor.a # 0 /\ tolerance >= 0) =>
              /\ \A i \in Reach4(input, StartIdx) : data[i].a = 0
              /\ \A j \in SeedColoured \ Reach4(input, StartIdx) :
                    IF contiguous THEN data[j] = input[j] ELSE data[j].a = 0

\* a global fill erased a red pixel that no matching path joins to the red
\* seed, and left a pixel that does not match
C9_Witness ==
    /\ pc = "filled" /\ ~contiguous
    /\ SeedInBounds /\ targetColor = PxRed
    /\ input[StartIdx] = PxRed
    /\ \E j \in SeedColoured \ Reach4(input, StartIdx) :
          data[j] = [input[j] EXCEPT !.a = 0]
    /\ \E i \in DOMAIN input : i \notin Matching(input) /\ input[i].a # 0
                                  /\ data[i] = input[i]

(***************************************************************************)
(* C10: no step of floodFill, contiguous or global, seed on the canvas or  *)
(* off it, changes the R, G or B byte of a pixel, the width, the height or *)
(* the length of the buffer; an alpha byte stays or becomes 0.             *)
(***************************************************************************)
C10_OnlyAlphaZeroed ==
    [][ /\ width' = width /\ height' = height
        /\ DOMAIN data' = DOMAIN data
        /\ \A i \in DOMAIN data :
              /\ RgbOf(data'[i]) = RgbOf(data[i])
              /\ data'[i].a = data[i].a \/ data'[i].a = 0 ]_vars

\* a contiguous fill seeded off the canvas erased pixels
C10_Witness ==
    /\ pc = "filled" /\ contiguous /\ ~SeedInBounds
    /\ \E i \in DOMAIN data : data[i].a = 0 /\ input[i].a = 255
    /\ \A i \in DOMAIN data : RgbOf(data[i]) = RgbOf(input[i])
    /\ DOMAIN data = DOMAIN input

(***************************************************************************)
(* C11: a contiguous floodFill whose start pixel does not match the target *)
(* under the tolerance returns with every byte of the buffer as it was.    *)
(***************************************************************************)
C11_SeedGuard ==
    (pc = "filled" /\ contiguous /\ StartIdx \notin Matching(input)) =>
        data = input

\* the fill returned at a start pixel on the canvas that does not match,
\* next to a pixel that does
C11_Witness ==
    /\ pc = "filled" /\ contiguous /\ SeedInBounds
    /\ StartIdx \notin Matching(input)
    /\ input[StartIdx].a # 0
    /\ \E j \in Matching(input) : Adjacent4(StartIdx, j) /\ input[j].a # 0
    /\ data = input

(***************************************************************************)
(* C12: after featherEdges, whatever the amount, the alpha of every pixel  *)
(* is at most the alpha it had when featherEdges was called.               *)
(***************************************************************************)
C12_FeatherMonotone ==
    pc = "feathered" =>
        \A i \in DOMAIN data : data[i].a <= input[i].a

\* a half transparent pixel beside opaque ones kept its alpha, and an
\* opaque pixel lost some
C12_Witness ==
    /\ pc = "feathered" /\ Radius(amount) >= 1
    /\ \E i, j \in DOMAIN data :
          /\ input[i].a = 128 /\ data[i].a <= 128 /\ data[i].a > 0
          /\ input[j].a = 255 /\ data[j].a < 255 /\ data[j].a > 0
          /\ Adjacent4(i, j)

(***************************************************************************)
(* C13: featherEdges leaves a pixel whose alpha was 0 as it was, and never *)
(* changes the R, G or B byte of a pixel; no step changes another byte     *)
(* than the alpha of a pixel whose alpha was above 0.                      *)
(***************************************************************************)
C13_FeatherFrame ==
    pc \in {"feather", "vertical", "feathered"} =>
        \A i \in DOMAIN data :
           /\ RgbOf(data[i]) = RgbOf(input[i])
           /\ input[i].a = 0 => data[i] = input[i]
           /\ DOMAIN data = DOMAIN input

\* a transparent pixel between opaque ones stayed transparent while its
\* neighbours' alphas were written
C13_Witness ==
    /\ pc = "feathered" /\ Radius(amount) >= 1
    /\ \E i, j \in DOMAIN data :
          /\ input[i].a = 0 /\ data[i] = input[i]
          /\ Adjacent4(i, j)
          /\ input[j].a = 255 /\ data[j].a < 255
          /\ RgbOf(data[j]) = RgbOf(input[j])

(***************************************************************************)
(* C14: feathering an image whose pixels all have alpha 255, with a radius *)
(* of 1 or more, leaves alpha 255 on every pixel more than radius pixels   *)
(* from each edge of the image.                                            *)
(***************************************************************************)
Interior(i, radius) ==
    /\ XOf(i) > radius /\ XOf(i) < width - 1 - radius
    /\ YOf(i) > radius /\ YOf(i) < height - 1 - radius

C14_OpaqueInterior ==
    (pc = "feathered" /\ Radius(amount) >= 1
        /\ \A i \in DOMAIN input : input[i].a = 255) =>
        \A i \in DOMAIN data : Interior(i, Radius(amount)) => data[i].a = 255

\* the fully opaque image was feathered with radius 2 and has an interior
C14_Witness ==
    /\ pc = "feathered" /\ Radius(amount) = 2
    /\ \A i \in DOMAIN input : input[i].a = 255
    /\ \E i \in DOMAIN data : Interior(i, 2) /\ data[i].a = 255
    /\ tempAlpha # <<>>

(***************************************************************************)
(* C15: featherEdges called with amount <= 0 returns with every byte of    *)
(* the buffer as it was (and has no path that throws).                     *)
(***************************************************************************)
C15_FeatherNoOp ==
    (pc = "feathered" /\ amount <= 0) =>
        /\ data = input
        /\ tempAlpha = <<>>

\* featherEdges returned from a negative amount on an image with visible
\* pixels
C15_Witness ==
    /\ pc = "feathered" /\ amount < 0
    /\ data = input
    /\ \E i \in DOMAIN data : data[i].a = 255

(***************************************************************************)
(* C16: on an image none of whose pixels is a sprite pixel under the       *)
(* background found (all transparent, or one colour throughout),           *)
(* detectSprites never enters findComponent, can always take its next step *)
(* until it has resolved, and holds an empty list of rects throughout.     *)
(***************************************************************************)
NoSpritePixels == \A i \in DOMAIN data : ~IsSpritePixel(i * 4)

C16_EmptyResult ==
    (pc \in {"scan", "bfs", "nested", "sort", "resolved"} /\ NoSpritePixels) =>
        /\ pc # "bfs"
        /\ comps = <<>>
        /\ rects = <<>>
        /\ pc # "resolved" => ENABLED NextDetect

\* detectSprites resolved with no rect on an image of one pixel value
C16_Witness ==
    /\ pc = "resolved" /\ rects = <<>>
    /\ \A i \in DOMAIN data : data[i] = data[0]
    /\ NoSpritePixels
    /\ scanPos = PixelCount

(***************************************************************************)
(* C17: cropFrame called with a rect of zero or negative width or height,  *)
(* or one that reaches outside the image, fails with an InvalidDimensions  *)
(* error and produces no cropped result.                                   *)
(***************************************************************************)
InvalidGeometry(r) ==
    \/ r.width <= 0 \/ r.height <= 0
    \/ r.x < 0 \/ r.y < 0
    \/ r.x + r.width > width \/ r.y + r.height > height

C17_InvalidDimensions ==
    (pc = "cropped" /\ InvalidGeometry(crop.rect)) =>
        /\ crop.promise = "InvalidDimensions"
        /\ crop.drawImage = <<>>

(***************************************************************************)
(* C18: floodFill clamps its tolerance to [0, 100]: a call with a          *)
(* tolerance above 100 leaves the buffer as the call with tolerance 100    *)
(* does, and a call with a tolerance below 0 as the call with tolerance 0  *)
(* does.  What a call with a tolerance in [0, 100] leaves is the erasure   *)
(* of the matching pixels (global) or of those reached from a start pixel  *)
(* on the canvas (contiguous), as C8 and C9 establish.                     *)
(***************************************************************************)
ClampTolerance(t) == IF t > 100 THEN 100 ELSE IF t < 0 THEN 0 ELSE t

MatchingAt(d, tol) == {i \in DOMAIN d : MatchColor(d, i * 4, targetColor, tol)}

Reach4At(d, seed, tol) ==
    IF seed \in MatchingAt(d, tol) THEN Spread({seed}, MatchingAt(d, tol)) ELSE {}

C18_ToleranceClamped ==
    pc = "filled" =>
        /\ ~contiguous =>
              data = ErasedTo(MatchingAt(input, ClampTolerance(tolerance)))
        /\ (contiguous /\ SeedInBounds) =>
              data = ErasedTo(Reach4At(input, StartIdx, ClampTolerance(tolerance)))

(***************************************************************************)
(* C19: when the scan ends, before nested suppression, the components      *)
(* found are the maximal 8-connected groups of sprite pixels, each once:   *)
(* every component is all that steps between axis- or diagonal-adjacent    *)
(* sprite pixels reach from one of its pixels, no two components share a   *)
(* pixel, every sprite pixel is in one, and pixelCount is the number of    *)
(* the component's pixels.  The Rects emitted are, in order, those of the  *)
(* components that pass the acceptance filter, each the exact bounding box *)
(* of its component's pixels.                                              *)
(***************************************************************************)
SpritePixels == {i \in DOMAIN data : IsSpritePixel(i * 4)}

Adjacent8(i, j) ==
    /\ i # j
    /\ Abs(XOf(i) - XOf(j)) <= 1
    /\ Abs(YOf(i) - YOf(j)) <= 1

\* S and all of M that steps between 8-adjacent pixels of M reach from S
RECURSIVE Spread8(_, _)
Spread8(S, M) ==
    LET T == S \cup {j \in M \ S : \E i \in S : Adjacent8(i, j)}
    IN IF T = S THEN S ELSE Spread8(T, M)

\* the maximal 8-connected group of sprite pixels that pixel i belongs to
GroupOf(i) == Spread8({i}, SpritePixels)

C19_ComponentsAreGroups ==
    pc = "nested" =>
        /\ \A j \in DOMAIN comps :
              /\ comps[j].pixels # {}
              /\ comps[j].pixels \subseteq SpritePixels
              /\ comps[j].pixels = GroupOf(MinOf(comps[j].pixels))
              /\ comps[j].pixelCount = Cardinality(comps[j].pixels)
              /\ (comps[j].rect # NullRect) <=> ~Rejected(comps[j].pixels)
              /\ (comps[j].rect # NullRect) =>
                    comps[j].rect = BoundingRect(comps[j].pixels)
        /\ \A j \in DOMAIN comps : \A k \in DOMAIN comps :
              j # k => comps[j].pixels \cap comps[k].pixels = {}
        /\ SpritePixels = UNION {comps[j].pixels : j \in DOMAIN comps}
        /\ rects = Emitted(comps, Len(comps))

\* the scan ended with one Rect emitted for a group that holds a pixel joined
\* to the rest of it by a diagonal alone
C19_Witness ==
    /\ pc = "nested"
    /\ Len(rects) = 1
    /\ \E j \in DOMAIN comps :
          /\ comps[j].rect = rects[1]
          /\ \E i \in comps[j].pixels :
                /\ \E k \in comps[j].pixels : Adjacent8(i, k)
                /\ \A k \in comps[j].pixels : ~Adjacent4(i, k)

(***************************************************************************)
(* C20: once the background is known, isSpritePixel is false of every      *)
(* pixel with alpha < 50; of a pixel with alpha >= 50 it is true when the  *)
(* background is transparent, and when the background is a solid colour    *)
(* it is true exactly when the pixel's Euclidean RGB distance to that      *)
(* colour is strictly greater than threshold * 2.5.                        *)
(***************************************************************************)
\* dist > t * 2.5 for a distance whose square is d2: dist >= 0, so a
\* negative bound is always exceeded and otherwise (2 dist)^2 > (5 t)^2
FartherThan(d2, t) == t < 0 \/ 4 * d2 > (5 * t) * (5 * t)

DistSqToBg(p) ==
    (p.r - dominantColor.r) * (p.r - dominantColor.r)
    + (p.g - dominantColor.g) * (p.g - dominantColor.g)
    + (p.b - dominantColor.b) * (p.b - dominantColor.b)

C20_Classifier ==
    pc # "load" =>
        \A i \in DOMAIN data :
           IsSpritePixel(i * 4) <=>
              /\ data[i].a >= 50
              /\ isTransparentBg \/ FartherThan(DistSqToBg(data[i]), threshold)

\* on a solid background the scan passed over an opaque pixel of another
\* colour than the background, at exactly 2.5 times the threshold from it,
\* and found no component
C20_Witness ==
    /\ pc = "nested"
    /\ ~isTransparentBg
    /\ threshold > 0
    /\ comps = <<>>
    /\ \E i \in DOMAIN data :
          /\ data[i].a >= 50
          /\ 4 * DistSqToBg(data[i]) = (5 * threshold) * (5 * threshold)

(***************************************************************************)
(* C21: matchColor, on every pixel of the buffer at every point of a       *)
(* floodFill call: with a target of alpha 0 the pixel matches exactly when *)
(* its alpha is strictly less than (tolerance / 100) * 255, whatever its   *)
(* RGB; with any other target a pixel of alpha 0 does not match and a      *)
(* pixel of alpha > 0 matches exactly when its Euclidean RGB distance to   *)
(* the target is at most (tolerance / 100) * 442.  The target is one of    *)
(* numbers; of a target read off the canvas, whose components are          *)
(* undefined and whose distance to any pixel is NaN, no pixel matches.     *)
(***************************************************************************)
\* a < (tol / 100) * 255
AlphaBelow(a, tol) == 100 * a < 255 * tol

\* dist <= (tol / 100) * 442 for the distance between the RGB of p and of q
NoFartherThan(p, q, tol) ==
    LET d2 == (p.r - q.r) * (p.r - q.r) + (p.g - q.g) * (p.g - q.g)
              + (p.b - q.b) * (p.b - q.b)
    IN tol >= 0 /\ 100 * 100 * d2 <= 442 * 442 * tol * tol

C21_MatchPredicate ==
    pc \in {"fill", "flood", "filled"} =>
        \A i \in DOMAIN data :
           MatchColor(data, i * 4, targetColor, tolerance) <=>
              IF targetColor.a = 0
              THEN AlphaBelow(data[i].a, tolerance)
              ELSE /\ targetColor # UndefinedPx
                   /\ data[i].a > 0
                   /\ NoFartherThan(data[i], targetColor, tolerance)

\* a fill with tolerance 0 and a target that is not transparent erased a
\* pixel of the target's very RGB (distance 0 <= 0) and kept an opaque pixel
\* of another colour
C21_Witness ==
    /\ pc = "filled"
    /\ tolerance = 0
    /\ targetColor.a # 0
    /\ \E i \in DOMAIN data :
          /\ input[i].a > 0 /\ data[i].a = 0
          /\ RgbOf(input[i]) = RgbOf(targetColor)
    /\ \E j \in DOMAIN data :
          /\ data[j].a = 255
          /\ RgbOf(data[j]) # RgbOf(targetColor)

(***************************************************************************)
(* C22: background detection samples every pixel of the 1-pixel border     *)
(* exactly once, on an image of any size, a single row, column or pixel    *)
(* included: the samples number 2 * width + 2 * height - 4, each border    *)
(* pixel is sampled once, transparentCount is the number of border pixels  *)
(* of alpha < 50 and every colour's count is the number of border pixels   *)
(* of alpha >= 50 that have the colour.                                    *)
(***************************************************************************)
\* how many of the samples taken fall on pixel i
TimesSampled(i) ==
    LET samples == BorderSamples(width, height)
    IN Cardinality({k \in DOMAIN samples : samples[k] = i * 4})

C22_BorderSampledOnce ==
    BackgroundDetected =>
        /\ Len(BorderSamples(width, height)) = 2 * width + 2 * height - 4
        /\ \A i \in DOMAIN data :
              TimesSampled(i) = IF i \in BorderPixels THEN 1 ELSE 0
        /\ transparentCount = Cardinality(BorderTransparent)
        /\ \A i \in BorderOpaque :
              CountOf(colorCounts, <<data[i].r, data[i].g, data[i].b>>)
                 = BorderCount(RgbOf(data[i]))

\* the claim as the images at least 2 x 2 bear it out
C22_OnProperImages ==
    (width >= 2 /\ height >= 2) => C22_BorderSampledOnce

(***************************************************************************)
(* C23: on an image with width <= 1 or height <= 1 the background is       *)
(* found transparent only when no border pixel has alpha >= 50; when one   *)
(* has, the background is solid and dominantColor is a colour no other     *)
(* colour outnumbers among the border pixels of alpha >= 50.               *)
(***************************************************************************)
IsDegenerate == width <= 1 \/ height <= 1

C23_DegenerateBorder ==
    (BackgroundDetected /\ IsDegenerate) =>
        /\ isTransparentBg <=> BorderOpaque = {}
        /\ ~isTransparentBg =>
              /\ BorderCount(dominantColor) > 0
              /\ \A i \in BorderOpaque :
                    BorderCount(RgbOf(data[i])) <= BorderCount(dominantColor)

(***************************************************************************)
(* C24: the background found (transparent, or solid with its colour)       *)
(* depends only on how often each pixel value occurs on the border: the    *)
(* image with any two of its border pixels exchanged, and so with its      *)
(* border pixels permuted in any way, is found to have the same            *)
(* background.                                                             *)
(***************************************************************************)
\* the image d with the pixels i and j exchanged
Exchanged(d, i, j) ==
    [k \in DOMAIN d |-> IF k = i THEN d[j] ELSE IF k = j THEN d[i] ELSE d[k]]

\* the background detectSprites finds on the image d of this width and height
BackgroundOf(d) ==
    LET samples == BorderSamples(width, height)
        st == SampleBorders(d, BgStart, samples, 1, Len(samples))
    IN IF IsTransparentBg(st.transparentCount, width, height)
       THEN [kind |-> "Transparent", colour |-> [r |-> 0, g |-> 0, b |-> 0]]
       ELSE [kind |-> "SolidColor", colour |-> st.dominantColor]

\* the background this run found
BackgroundFound ==
    IF isTransparentBg
    THEN [kind |-> "Transparent", colour |-> [r |-> 0, g |-> 0, b |-> 0]]
    ELSE [kind |-> "SolidColor", colour |-> dominantColor]

C24_OrderIndependent ==
    BackgroundDetected =>
        \A i \in BorderPixels : \A j \in BorderPixels :
           BackgroundOf(Exchanged(data, i, j)) = BackgroundFound

\* the same, with the images left out on whose border two colours tie for
\* the highest count
BorderTie ==
    \E i \in BorderOpaque : \E j \in BorderOpaque :
       /\ RgbOf(data[i]) # RgbOf(data[j])
       /\ BorderCount(RgbOf(data[i])) = BorderCount(RgbOf(data[j]))
       /\ \A k \in BorderOpaque :
             BorderCount(RgbOf(data[k])) <= BorderCount(RgbOf(data[i]))

C24_WithoutTies ==
    (BackgroundDetected /\ ~BorderTie /\ width = CanvasW) =>
        \A i \in BorderPixels : \A j \in BorderPixels :
           BackgroundOf(Exchanged(data, i, j)) = BackgroundFound

(***************************************************************************)
(* C25: an iteration of findComponent's loop touches none but the pixels   *)
(* of the image that lie next to the pixel it took from the queue, along   *)
(* an axis or a diagonal: every pixel it marks visited and every index it  *)
(* puts on the queue is one of those, the queue never holds an index       *)
(* outside [0, width * height), and the visited array keeps its length.    *)
(* A neighbour candidate off the image, one past the end of a row          *)
(* included, is neither marked nor queued; so on the 1 x 1 image nothing   *)
(* is.                                                                     *)
(***************************************************************************)
\* the entries that queue q holds beyond the tail of queue p
Pushed(p, q) == {q[k] : k \in Len(p)..Len(q)}

C25_StaysInBounds ==
    [][(pc = "bfs" /\ queue # <<>>) =>
          LET curr == Head(queue)
          IN /\ curr \in 0..(PixelCount - 1)
             /\ DOMAIN visited' = 0..(PixelCount - 1)
             /\ \A i \in DOMAIN visited :
                   visited'[i] # visited[i] => Adjacent8(curr, i)
             /\ Len(queue') >= Len(queue) - 1
             /\ \A i \in Pushed(queue, queue') :
                   i \in 0..(PixelCount - 1) /\ Adjacent8(curr, i)]_vars

\* the loop ran on the pixel at the end of a row of a strip and marked the
\* pixel before it, the only neighbour candidate of its eight on the image
C25_Witness ==
    /\ pc = "bfs"
    /\ height = 1 /\ width = StripLen
    /\ component = {width - 1}
    /\ IsVisited(visited, width - 2)
    /\ queue = <<>>

(***************************************************************************)
(* C26: a contiguous floodFill whose seed has x outside [0, width) or y    *)
(* outside [0, height) returns with every pixel of the buffer as it was,   *)
(* whatever the target colour and the tolerance.                           *)
(***************************************************************************)
C26_SeedOffCanvas ==
    (pc = "filled" /\ contiguous /\ ~SeedInBounds) => data = input

\* the same for the seeds whose index startY * width + startX is no index
\* of the buffer either
C26_SeedOffBuffer ==
    (pc = "filled" /\ contiguous /\ StartIdx \notin DOMAIN input) => data = input

(***************************************************************************)
(* C27: in App, once an image is loaded and whatever the order in which    *)
(* the commits, undo, redo and the late commits of handleAutoDetect and    *)
(* handleMouseUp come, historyIndex is an index of history,                *)
(* 0 <= historyIndex <= history.length - 1, and history holds at most 50   *)
(* entries.                                                                *)
(***************************************************************************)
C27_HistoryIndexValid ==
    (pc = "app" /\ image) =>
        /\ 0 <= historyIndex
        /\ historyIndex <= Len(history) - 1
        /\ Len(history) <= 50

\* the same while no handler commits with the historyIndex of an earlier
\* render
StaleCommit ==
    \/ (\E c \in detecting : c # historyIndex)
    \/ (\E c \in cropping : c # historyIndex)

C27_WithoutStaleCommits ==
    [][(pc = "app" /\ image /\ C27_HistoryIndexValid /\ ~StaleCommit)
          => C27_HistoryIndexValid']_vars

(***************************************************************************)
(* C28: a pixel whose alpha a contiguous floodFill set to 0 has alpha 0    *)
(* also in the buffer that the global floodFill leaves when it is called   *)
(* on the same buffer with the same target colour and tolerance; wherever  *)
(* the seed lies.                                                          *)
(***************************************************************************)
\* the pixels that the call, now returned, set to alpha 0
Erased == {i \in DOMAIN data : input[i].a # 0 /\ data[i].a = 0}

\* the pixels that the global fill of the called-on buffer sets to alpha 0
GloballyErased ==
    {i \in DOMAIN input :
        input[i].a # 0 /\ GlobalReplace(input, targetColor, tolerance)[i].a = 0}

C28_ContiguousWithinGlobal ==
    (pc = "filled" /\ contiguous) =>
        \A i \in DOMAIN data :
           data[i].a = 0 => GlobalReplace(input, targetColor, tolerance)[i].a = 0

\* a contiguous fill erased some pixels and kept one that the global fill
\* erases
C28_Witness ==
    /\ pc = "filled" /\ contiguous
    /\ Erased # {}
    /\ Erased \subseteq GloballyErased
    /\ GloballyErased \ Erased # {}

(***************************************************************************)
(* C29: floodFill called a second time with the same seed, target colour,  *)
(* tolerance and mode on the buffer that the first call left returns with  *)
(* that buffer unchanged, in contiguous and in global mode.                *)
(***************************************************************************)
C29_FillIdempotent ==
    (pc = "filled" /\ calls = 2) => data = input

\* a second contiguous call for a transparent target walked again over the
\* pixels the first call had erased, a red one among them, and left them
C29_Witness ==
    /\ pc = "filled" /\ calls = 2
    /\ contiguous /\ targetColor.a = 0
    /\ \E i \in DOMAIN data : input[i] = Px(255, 0, 0, 0) /\ IsVisited(visited, i)
    /\ data = input

(***************************************************************************)
(* C30: featherEdges called with an amount above 0 and below 1 (0.5, the   *)
(* slider's first step) runs both passes with radius floor(amount) = 0 and *)
(* returns with every byte of the buffer as it was, as it does for an      *)
(* amount of 0 or less.                                                    *)
(***************************************************************************)
\* the amount, counted in halves, lies strictly between 0 and 1
IsFraction(a) == a > 0 /\ a < 2

C30_FractionalAmount ==
    (pc = "feathered" /\ IsFraction(amount)) =>
        /\ tempAlpha # <<>>
        /\ \A i \in DOMAIN tempAlpha : tempAlpha[i].count = 1   \* radius 0
        /\ data = input

\* featherEdges ran with amount 0.5 on an image where a half transparent
\* pixel lies beside an opaque one and beside a transparent one, and left it
C30_Witness ==
    /\ pc = "feathered" /\ amount = 1
    /\ tempAlpha # <<>>
    /\ data = input
    /\ \E i, j, k \in DOMAIN data :
          /\ data[i].a = 128 /\ data[j].a = 255 /\ data[k].a = 0
          /\ Adjacent4(i, j) /\ Adjacent4(i, k)

====
